---- MODULE Spec2Model ----
(***************************************************************************)
(* A model of the single-pass lexer of simple-lexer (src/src/lexer.rs,     *)
(* src/src/lexer/token.rs, src/src/lexer/character_helpers.rs).            *)
(*                                                                         *)
(* The input is a sequence of characters; every character has the UTF-8    *)
(* byte length Rust gives it, byte offsets are computed from these lengths *)
(* as char_indices does, and a slice of the input by byte offsets aborts   *)
(* when it is out of range or not on a character boundary, as str          *)
(* indexing does.  Every iteration of the dispatch loop of lex is one      *)
(* action, named after the handler it dispatches to; the code after the    *)
(* loop is the action Flush.                                               *)
(***************************************************************************)
EXTENDS Integers, Sequences, FiniteSets, TLC

\* Longest input, in characters.
MaxLen == 4

\* Longest input of the termination check, in characters.
MaxLiveLen == 2

(***************************************************************************)
(* Characters.  "pe" is the Cyrillic letter U+043F (2 bytes in UTF-8) and  *)
(* "nbsp" is the no-break space U+00A0 (2 bytes, char::is_whitespace).     *)
(***************************************************************************)
Alphabet == {"1", "i", "f", "_", "+", "=", "'", "\"", ";", " ", "@", "pe", "nbsp"}

len_utf8(character) == IF character \in {"pe", "nbsp"} THEN 2 ELSE 1

AsciiDigits == {"0", "1", "2", "3", "4", "5", "6", "7", "8", "9"}

AsciiLetters ==
    {"a", "b", "c", "d", "e", "f", "g", "h", "i", "j", "k", "l", "m",
     "n", "o", "p", "q", "r", "s", "t", "u", "v", "w", "x", "y", "z",
     "A", "B", "C", "D", "E", "F", "G", "H", "I", "J", "K", "L", "M",
     "N", "O", "P", "Q", "R", "S", "T", "U", "V", "W", "X", "Y", "Z"}

UnicodeWhitespace == {" ", "\t", "\n", "\r", "nbsp"}

\* keywords compared without regard to case
is_keyword_caseless(str) ==
    [n \in 1..Len(str) |->
        CASE str[n] = "I" -> "i" [] str[n] = "F" -> "f" [] str[n] = "L" -> "l"
          [] str[n] = "E" -> "e" [] str[n] = "T" -> "t" [] OTHER -> str[n]]
    \in { <<"l", "e", "t">>,
          <<"c", "o", "n", "s", "t">>,
          <<"i", "f">>,
          <<"e", "l", "s", "e">>,
          <<"w", "h", "i", "l", "e">>,
          <<"f", "o", "r">>,
          <<"f", "u", "n", "c", "t", "i", "o", "n">>,
          <<"m", "m", "k">> }

is_keyword(str) ==
    str \in { <<"l", "e", "t">>,
              <<"c", "o", "n", "s", "t">>,
              <<"i", "f">>,
              <<"e", "l", "s", "e">>,
              <<"w", "h", "i", "l", "e">>,
              <<"f", "o", "r">>,
              <<"f", "u", "n", "c", "t", "i", "o", "n">>,
              <<"m", "m", "k">> }

is_digit(character) == character \in AsciiDigits

\* an underscore may start an identifier
is_letter_or_underscore(character) == character \in AsciiLetters \/ character = "_"

is_letter(character) == character \in AsciiLetters

\* the ampersand is taken for an operator character
is_operator_with_ampersand(character) ==
    character \in {"+", "-", "*", "/", "=", "!", "<", ">", "%", "&"}

is_operator(character) ==
    character \in {"+", "-", "*", "/", "=", "!", "<", ">", "%"}

is_single_quote(character) == character = "'"

is_double_quote(character) == character = "\""

is_semicolon(character) == character = ";"

\* only the ASCII whitespace characters
is_whitespace_ascii(character) == character \in {" ", "\t", "\n", "\r"}

is_whitespace(character) == character \in UnicodeWhitespace

is_in_identifier(character) ==
    character \in AsciiDigits \cup AsciiLetters \/ character = "_"

(***************************************************************************)
(* Token model (token.rs).                                                 *)
(***************************************************************************)
Span(start, length) == [start |-> start, length |-> length]

\* the span runs one byte past the token
create_token_wide(kind, start, length) == [kind |-> kind, span |-> Span(start, length + 1)]

create_token(kind, start, length) == [kind |-> kind, span |-> Span(start, length)]

Plain(tag) == [tag |-> tag, sub |-> "-"]

StringTok(sub) == [tag |-> "String", sub |-> sub]

OperatorTok(sub) == [tag |-> "Operator", sub |-> sub]

\* the table with the arm of "--" copied from "++" and left as Increment
match_operator_slice_to_operator_kind_copied(operator) ==
    CASE operator = <<"+">> -> "Add"
      [] operator = <<"-">> -> "Substract"
      [] operator = <<"*">> -> "Multiply"
      [] operator = <<"/">> -> "Divide"
      [] operator = <<"=">> -> "Equal"
      [] operator = <<"%">> -> "Modulo"
      [] operator = <<"!", "=">> -> "NotEqual"
      [] operator = <<"!">> -> "Not"
      [] operator = <<">">> -> "GreaterThan"
      [] operator = <<"<">> -> "LessThan"
      [] operator = <<"+", "=">> -> "CompoundAdd"
      [] operator = <<"-", "=">> -> "CompoundSubstract"
      [] operator = <<"*", "=">> -> "CompoundMultiply"
      [] operator = <<"/", "=">> -> "CompoundDivide"
      [] operator = <<"%", "=">> -> "CompoundModulo"
      [] operator = <<"=", "=">> -> "DoubleEqual"
      [] operator = <<"+", "+">> -> "Increment"
      [] operator = <<"-", "-">> -> "Increment"
      [] OTHER -> "Invalid"

match_operator_slice_to_operator_kind(operator) ==
    CASE operator = <<"+">> -> "Add"
      [] operator = <<"-">> -> "Substract"
      [] operator = <<"*">> -> "Multiply"
      [] operator = <<"/">> -> "Divide"
      [] operator = <<"=">> -> "Equal"
      [] operator = <<"%">> -> "Modulo"
      [] operator = <<"!", "=">> -> "NotEqual"
      [] operator = <<"!">> -> "Not"
      [] operator = <<">">> -> "GreaterThan"
      [] operator = <<"<">> -> "LessThan"
      [] operator = <<"+", "=">> -> "CompoundAdd"
      [] operator = <<"-", "=">> -> "CompoundSubstract"
      [] operator = <<"*", "=">> -> "CompoundMultiply"
      [] operator = <<"/", "=">> -> "CompoundDivide"
      [] operator = <<"%", "=">> -> "CompoundModulo"
      [] operator = <<"=", "=">> -> "DoubleEqual"
      [] operator = <<"+", "+">> -> "Increment"
      [] operator = <<"-", "-">> -> "Decrement"
      [] OTHER -> "Invalid"

(***************************************************************************)
(* The lexer's fields, the error handler's list, the loop's local          *)
(* `advancement`, and the position of lex itself.                          *)
(***************************************************************************)
VARIABLES input, current_state, buffered_token_start, cursor,
          current_character_byte_index, tokens, errors, advancement, pc

vars == <<input, current_state, buffered_token_start, cursor,
          current_character_byte_index, tokens, errors, advancement, pc>>

States == {"Start", "InNumber", "InIdentifier", "InOperator",
           "InString(InSingleQuote)", "InString(InDoubleQuote)"}

IsInString(st) == st \in {"InString(InSingleQuote)", "InString(InDoubleQuote)"}

(***************************************************************************)
(* Byte arithmetic over the input (str::len, char_indices, str indexing).  *)
(***************************************************************************)
RECURSIVE ByteLen(_)
ByteLen(s) == IF s = <<>> THEN 0 ELSE len_utf8(Head(s)) + ByteLen(Tail(s))

\* byte offset of the i-th character (1-based); i = Len(input) + 1 gives input.len()
ByteIndex(i) == ByteLen(SubSeq(input, 1, i - 1))

InputLen == ByteLen(input)

is_char_boundary(b) == \E i \in 1..(Len(input) + 1) : ByteIndex(i) = b

\* &input[a..b] does not abort
SliceOk(a, b) == a <= b /\ b <= InputLen /\ is_char_boundary(a) /\ is_char_boundary(b)

\* &input[a..b], the characters whose bytes lie in a..b
Slice(a, b) ==
    LET idx == {i \in 1..Len(input) : a <= ByteIndex(i) /\ ByteIndex(i) < b}
    IN  IF idx = {} THEN <<>>
        ELSE SubSeq(input, CHOOSE i \in idx : \A j \in idx : i <= j,
                           CHOOSE i \in idx : \A j \in idx : j <= i)

get_buffered_token(bts, cbi) == Slice(bts, cbi)

\* a span that runs one byte past the buffered token
create_current_token_span_long(bts, cbi) ==
    LET l == cbi - bts
    IN  Span(bts, IF l = 0 THEN 1 ELSE l + 1)

create_current_token_span(bts, cbi) ==
    LET l == cbi - bts
    IN  Span(bts, IF l = 0 THEN 1 ELSE l)

(***************************************************************************)
(* Results of the pieces of a loop iteration.  `toks` and `errs` are what  *)
(* the piece pushes, `adv` counts its calls of advance_cursor, `panic`     *)
(* says that it aborted (unreachable!() or a slice that str indexing       *)
(* rejects).                                                               *)
(***************************************************************************)
Consumed(toks, errs, bts, cbi) ==
    [panic |-> FALSE, why |-> "-", toks |-> toks, errs |-> errs,
     bts |-> bts, cbi |-> cbi]

\* a slice of the input that str indexing rejects
Aborted(bts, cbi) ==
    [panic |-> TRUE, why |-> "panicked", toks |-> <<>>, errs |-> <<>>,
     bts |-> bts, cbi |-> cbi]

\* unreachable!()
UnreachableArm(bts, cbi) ==
    [panic |-> TRUE, why |-> "unreachable", toks |-> <<>>, errs |-> <<>>,
     bts |-> bts, cbi |-> cbi]

LexerError(span, kind) == [span |-> span, kind |-> kind]

\* the byte index is left on the closing quote
include_closing_quote_forgotten(cbi) == cbi

\* lexer.rs:293, the byte index is moved past the closing quote
include_closing_quote(cbi) == cbi + 1

\* the buffered token still starts at the first operator character
skip_first_operator_forgotten(bts) == bts

\* lexer.rs:324, the buffered token now starts at the second operator character
skip_first_operator(bts) == bts + 1

\* &buffered_token[0..1] does not abort
FirstByteSliceOk(buffered_token) ==
    buffered_token # <<>> /\ len_utf8(Head(buffered_token)) = 1

\* the InOperator arm of consume_buffered_token
consume_operator(bts, cbi) ==
    IF ~SliceOk(bts, cbi) THEN Aborted(bts, cbi)
    ELSE
    LET buffered_token == get_buffered_token(bts, cbi)
        operator_kind  == match_operator_slice_to_operator_kind(buffered_token)
    IN  IF operator_kind # "Invalid"
        THEN Consumed(<< [kind |-> OperatorTok(operator_kind),
                          span |-> create_current_token_span(bts, cbi)] >>,
                      <<>>, bts, cbi)
        ELSE
        LET error == LexerError(create_current_token_span(bts, cbi), "InvalidOperator")
            bts2  == skip_first_operator(bts)
        IN  IF ~FirstByteSliceOk(buffered_token) \/ ~SliceOk(bts2, cbi)
               \/ ~FirstByteSliceOk(get_buffered_token(bts2, cbi))
            THEN Aborted(bts, cbi)
            ELSE
            LET first_operator_kind ==
                    match_operator_slice_to_operator_kind(<<Head(buffered_token)>>)
                first_token ==
                    create_token(OperatorTok(first_operator_kind), bts, 1)
                second_operator_kind ==
                    match_operator_slice_to_operator_kind(
                        <<Head(get_buffered_token(bts2, cbi))>>)
            IN  Consumed(<< first_token,
                            [kind |-> OperatorTok(second_operator_kind),
                             span |-> create_current_token_span(bts2, cbi)] >>,
                         <<error>>, bts2, cbi)

consume_buffered_token(st, bts, cbi0) ==
    LET cbi == IF IsInString(st) THEN include_closing_quote(cbi0) ELSE cbi0
    IN  CASE st = "Start" -> UnreachableArm(bts, cbi)
          [] st = "InOperator" -> consume_operator(bts, cbi)
          [] OTHER ->
             IF ~SliceOk(bts, cbi) THEN Aborted(bts, cbi)
             ELSE
             LET token_kind ==
                    CASE st = "InIdentifier" ->
                            IF is_keyword(get_buffered_token(bts, cbi))
                            THEN Plain("Keyword") ELSE Plain("Identifier")
                      [] st = "InString(InSingleQuote)" -> StringTok("SingleQuoted")
                      [] st = "InString(InDoubleQuote)" -> StringTok("DoubleQuoted")
                      [] st = "InNumber" -> Plain("Number")
             IN  Consumed(<< [kind |-> token_kind,
                              span |-> create_current_token_span(bts, cbi)] >>,
                          <<>>, bts, cbi)

(***************************************************************************)
(* State handlers.  Each gives the lexer's fields after the handler.       *)
(***************************************************************************)
Handled(st, c, adv) ==
    [panic |-> c.panic, why |-> c.why, state |-> st, bts |-> c.bts, cbi |-> c.cbi,
     adv |-> adv, toks |-> c.toks, errs |-> c.errs]

\* a handler that pushes nothing: the state, the token start, the advance
Moved(st, bts, cbi, adv) == Handled(st, Consumed(<<>>, <<>>, bts, cbi), adv)

\* reset_state(); consume_buffered_token(): the token is consumed in Start
Finalized_reset_first(st, bts, cbi, adv) ==
    LET c == consume_buffered_token("Start", bts, cbi)
    IN  Handled(IF c.panic THEN st ELSE "Start", c, adv)

\* consume_buffered_token(); reset_state(); after `adv` calls of advance_cursor
Finalized(st, bts, cbi, adv) ==
    LET c == consume_buffered_token(st, bts, cbi)
    IN  Handled(IF c.panic THEN st ELSE "Start", c, adv)

\* the unrecognized character is made a token and no error is recorded
handle_start_silent(character, cbi) ==
    LET bts == cbi
    IN  IF is_digit(character) THEN Moved("InNumber", bts, cbi, 0)
        ELSE IF is_letter(character) THEN Moved("InIdentifier", bts, cbi, 0)
        ELSE IF is_single_quote(character)
             THEN Moved("InString(InSingleQuote)", bts, cbi, 1)
        ELSE IF is_double_quote(character)
             THEN Moved("InString(InDoubleQuote)", bts, cbi, 1)
        ELSE IF is_operator(character) THEN Moved("InOperator", bts, cbi, 0)
        ELSE IF is_semicolon(character)
             THEN Handled("Start",
                          Consumed(<<create_token(Plain("Semicolon"), bts, 1)>>,
                                   <<>>, bts, cbi), 1)
        ELSE IF is_whitespace(character)
             THEN Handled("Start",
                          Consumed(<<create_token(Plain("Whitespace"), bts, 1)>>,
                                   <<>>, bts, cbi), 1)
        ELSE IF ~SliceOk(bts, cbi)
             THEN Handled("Start", Aborted(bts, cbi), 1)
        ELSE Handled("Start",
                     Consumed(<<create_token(Plain("Invalid"), bts, 1)>>,
                              <<>>,
                              bts, cbi), 1)

handle_start(character, cbi) ==
    LET bts == cbi
    IN  IF is_digit(character) THEN Moved("InNumber", bts, cbi, 0)
        ELSE IF is_letter(character) THEN Moved("InIdentifier", bts, cbi, 0)
        ELSE IF is_single_quote(character)
             THEN Moved("InString(InSingleQuote)", bts, cbi, 1)
        ELSE IF is_double_quote(character)
             THEN Moved("InString(InDoubleQuote)", bts, cbi, 1)
        ELSE IF is_operator(character) THEN Moved("InOperator", bts, cbi, 0)
        ELSE IF is_semicolon(character)
             THEN Handled("Start",
                          Consumed(<<create_token(Plain("Semicolon"), bts, 1)>>,
                                   <<>>, bts, cbi), 1)
        ELSE IF is_whitespace(character)
             THEN Handled("Start",
                          Consumed(<<create_token(Plain("Whitespace"), bts, 1)>>,
                                   <<>>, bts, cbi), 1)
        ELSE IF ~SliceOk(bts, cbi)
             THEN Handled("Start", Aborted(bts, cbi), 1)
        ELSE Handled("Start",
                     Consumed(<<create_token(Plain("Invalid"), bts, 1)>>,
                              <<LexerError(create_current_token_span(bts, cbi),
                                           "InvalidToken")>>,
                              bts, cbi), 1)

\* the boundary character is consumed with the number
handle_in_number_skipping(st, character, bts, cbi) ==
    IF is_digit(character) THEN Moved(st, bts, cbi, 1)
    ELSE Finalized(st, bts, cbi, 1)

\* a digit is buffered without advance_cursor
handle_in_number_stuck(st, character, bts, cbi) ==
    IF is_digit(character) THEN Moved(st, bts, cbi, 0)
    ELSE Finalized(st, bts, cbi, 0)

handle_in_number(st, character, bts, cbi) ==
    IF is_digit(character) THEN Moved(st, bts, cbi, 1)
    ELSE Finalized(st, bts, cbi, 0)

\* the slice may grow to three characters
handle_in_operator_triple(st, character, bts, cbi) ==
    IF is_operator(character) /\ ~SliceOk(bts, cbi)
    THEN Handled(st, Aborted(bts, cbi), 0)
    ELSE IF is_operator(character) /\ (cbi - bts) < 3
    THEN Moved(st, bts, cbi, 1)
    ELSE Finalized(st, bts, cbi, 0)

\* the slice is finalized as soon as it holds one character
handle_in_operator_single(st, character, bts, cbi) ==
    IF is_operator(character) /\ ~SliceOk(bts, cbi)
    THEN Handled(st, Aborted(bts, cbi), 0)
    ELSE IF is_operator(character) /\ (cbi - bts) < 1
    THEN Moved(st, bts, cbi, 1)
    ELSE Finalized(st, bts, cbi, 0)

handle_in_operator(st, character, bts, cbi) ==
    IF is_operator(character) /\ ~SliceOk(bts, cbi)
    THEN Handled(st, Aborted(bts, cbi), 0)
    ELSE IF is_operator(character) /\ (cbi - bts) < 2
    THEN Moved(st, bts, cbi, 1)
    ELSE Finalized(st, bts, cbi, 0)

\* a quote of either kind closes the literal
handle_in_string_any_quote(st, character, bts, cbi) ==
    IF ~IsInString(st) THEN Handled(st, UnreachableArm(bts, cbi), 0)
    ELSE
    LET is_closing_quote == is_single_quote(character) \/ is_double_quote(character)
    IN  IF ~is_closing_quote THEN Moved(st, bts, cbi, 1)
        ELSE Finalized(st, bts, cbi, 1)

\* the closing quote is left for the next iteration
handle_in_string_reprocess(st, character, bts, cbi) ==
    IF ~IsInString(st) THEN Handled(st, UnreachableArm(bts, cbi), 0)
    ELSE
    LET is_closing_quote ==
            IF st = "InString(InSingleQuote)"
            THEN is_single_quote(character) ELSE is_double_quote(character)
    IN  IF ~is_closing_quote THEN Moved(st, bts, cbi, 1)
        ELSE Finalized(st, bts, cbi, 0)

handle_in_string(st, character, bts, cbi) ==
    IF ~IsInString(st) THEN Handled(st, UnreachableArm(bts, cbi), 0)
    ELSE
    LET is_closing_quote ==
            IF st = "InString(InSingleQuote)"
            THEN is_single_quote(character) ELSE is_double_quote(character)
    IN  IF ~is_closing_quote THEN Moved(st, bts, cbi, 1)
        ELSE Finalized(st, bts, cbi, 1)

handle_in_identifier(st, character, bts, cbi) ==
    IF is_in_identifier(character) THEN Moved(st, bts, cbi, 1)
    ELSE Finalized(st, bts, cbi, 0)

(***************************************************************************)
(* lex.                                                                    *)
(***************************************************************************)
\* current_group.is_some(): the iterator has given `advancement` characters
HasCurrent == advancement < Len(input)

current_character == input[advancement + 1]

current_byte_index == ByteIndex(advancement + 1)

\* the new error is put in front of the list
add_error_front(es, new) == new \o es

\* ErrorHandler::add_error for the errors `new` of one step
add_error(es, new) == es \o new

\* the new tokens take the place of the list
push_tokens_over(ts, new) == IF new = <<>> THEN ts ELSE new

\* tokens.push for the tokens `new` of one step
push_tokens(ts, new) == ts \o new

\* every call moves the cursor by two
advance_cursor_twice(cur, adv) == cur + 2 * adv

\* `adv` calls of advance_cursor
advance_cursor(cur, adv) == cur + adv

\* the lexer's fields after the handler, then lexer.rs:222-226
Iteration(h) ==
    IF h.panic
    THEN /\ pc' = h.why
         /\ UNCHANGED <<input, current_state, buffered_token_start, cursor,
                        current_character_byte_index, tokens, errors, advancement>>
    ELSE /\ current_state' = h.state
         /\ buffered_token_start' = h.bts
         /\ current_character_byte_index' = h.cbi
         /\ cursor' = advance_cursor(cursor, h.adv)
         /\ tokens' = push_tokens(tokens, h.toks)
         /\ errors' = add_error(errors, h.errs)
         /\ advancement' = advancement + (advance_cursor(cursor, h.adv) - advancement)
         /\ UNCHANGED <<input, pc>>

Dispatch(st) == pc = "lexing" /\ HasCurrent /\ current_state = st

HandleStart ==
    /\ Dispatch("Start")
    /\ Iteration(handle_start(current_character, current_byte_index))

HandleInIdentifier ==
    /\ Dispatch("InIdentifier")
    /\ Iteration(handle_in_identifier(current_state, current_character,
                                      buffered_token_start, current_byte_index))

HandleInString ==
    /\ pc = "lexing" /\ HasCurrent /\ IsInString(current_state)
    /\ Iteration(handle_in_string(current_state, current_character,
                                  buffered_token_start, current_byte_index))

HandleInNumber ==
    /\ Dispatch("InNumber")
    /\ Iteration(handle_in_number(current_state, current_character,
                                  buffered_token_start, current_byte_index))

HandleInOperator ==
    /\ Dispatch("InOperator")
    /\ Iteration(handle_in_operator(current_state, current_character,
                                    buffered_token_start, current_byte_index))

\* the byte index is left on the last character
flush_byte_index_stale == current_character_byte_index

\* lexer.rs:234, the byte index is moved to the end of the input
flush_byte_index == InputLen

\* lexer.rs:229-238, the loop has ended
Flush ==
    /\ pc = "lexing" /\ ~HasCurrent
    /\ IF current_state # "Start"
       THEN LET c == consume_buffered_token(current_state, buffered_token_start,
                                            flush_byte_index)
            IN  /\ pc' = IF c.panic THEN c.why ELSE "done"
                /\ tokens' = push_tokens(tokens, c.toks)
                /\ errors' = add_error(errors, c.errs)
                /\ buffered_token_start' = c.bts
                /\ current_character_byte_index' = c.cbi
                /\ UNCHANGED <<input, current_state, cursor, advancement>>
       ELSE /\ pc' = "done"
            /\ UNCHANGED <<input, current_state, buffered_token_start, cursor,
                           current_character_byte_index, tokens, errors, advancement>>

Inputs(n) == UNION {[1..k -> Alphabet] : k \in 0..n}

\* Lexer::new with a fresh ErrorHandler
New(source) ==
    /\ input = source
    /\ current_state = "Start"
    /\ buffered_token_start = 0
    /\ current_character_byte_index = 0
    /\ cursor = 0
    /\ tokens = <<>>
    /\ errors = <<>>
    /\ advancement = 0
    /\ pc = "lexing"

Init == \E source \in Inputs(MaxLen) : New(source)

Next ==
    \/ HandleStart
    \/ HandleInIdentifier
    \/ HandleInString
    \/ HandleInNumber
    \/ HandleInOperator
    \/ Flush

Spec == Init /\ [][Next]_vars

(***************************************************************************)
(* The termination check runs lex under weak fairness of its steps: lex is *)
(* a single thread that is never suspended.                                *)
(***************************************************************************)
LiveInit == \E source \in Inputs(MaxLiveLen) : New(source)

LiveSpec == LiveInit /\ [][Next]_vars /\ WF_vars(Next)

(***************************************************************************)
(* Reference definitions of the properties, computed from the input alone. *)
(***************************************************************************)
\* the character that starts at byte b, "none" when no character starts there
CharAtByte(b) ==
    IF \E i \in 1..Len(input) : ByteIndex(i) = b
    THEN input[CHOOSE i \in 1..Len(input) : ByteIndex(i) = b]
    ELSE "none"

Quotes == {"'", "\""}

QuoteOf(sub) == IF sub = "SingleQuoted" THEN "'" ELSE "\""

KindOfQuote(q) == IF q = "'" THEN "SingleQuoted" ELSE "DoubleQuoted"

\* the terminated string literals of the input from character i on, as pairs
\* <<index of the opening quote, index of the closing quote>>; o is the index
\* of the quote that is open at i, 0 when none is
RECURSIVE Literals(_, _)
Literals(i, o) ==
    IF i > Len(input) THEN {}
    ELSE IF o = 0
         THEN IF input[i] \in Quotes THEN Literals(i + 1, i) ELSE Literals(i + 1, 0)
         ELSE IF input[i] = input[o]
              THEN {<<o, i>>} \cup Literals(i + 1, 0)
              ELSE Literals(i + 1, o)

\* the opening quote that is still open at the end of the input, 0 when none is
RECURSIVE OpenAtEnd(_, _)
OpenAtEnd(i, o) ==
    IF i > Len(input) THEN o
    ELSE IF o = 0
         THEN IF input[i] \in Quotes THEN OpenAtEnd(i + 1, i) ELSE OpenAtEnd(i + 1, 0)
         ELSE IF input[i] = input[o] THEN OpenAtEnd(i + 1, 0) ELSE OpenAtEnd(i + 1, o)

\* the bytes of the quote characters that delimit a string literal
DelimiterBytes ==
    {ByteIndex(l[1]) : l \in Literals(1, 0)} \cup {ByteIndex(l[2]) : l \in Literals(1, 0)}
    \cup (IF OpenAtEnd(1, 0) = 0 THEN {} ELSE {ByteIndex(OpenAtEnd(1, 0))})

Covers(t, b) == t.span.start <= b /\ b < t.span.start + t.span.length

Covering(b) == {k \in 1..Len(tokens) : Covers(tokens[k], b)}

SpanEnd(t) == t.span.start + t.span.length

Last(s) == s[Len(s)]

\* C1: once lex has returned, every byte of the input is inside exactly one
\* token span, or inside none and is the byte of a quote delimiter.
C1_Coverage ==
    pc = "done" =>
        \A b \in 0..(InputLen - 1) :
            \/ Cardinality(Covering(b)) = 1
            \/ Cardinality(Covering(b)) = 0 /\ b \in DelimiterBytes

\* C2: consecutive tokens do not overlap and their starts strictly ascend:
\* each token starts at or after the end of the token before it.
C2_TokenOrder ==
    \A k \in 1..(Len(tokens) - 1) :
        /\ tokens[k + 1].span.start >= SpanEnd(tokens[k])
        /\ tokens[k + 1].span.start > tokens[k].span.start

C2_Witness ==
    /\ pc = "done"
    /\ Len(tokens) >= 3
    /\ \E k \in 1..Len(tokens) : tokens[k].span.length >= 2
    /\ \E k \in 1..(Len(tokens) - 1) : tokens[k + 1].span.start = SpanEnd(tokens[k])

IsStringToken(t) == t.kind.tag = "String"

StartingIn(a, b) ==
    {k \in 1..Len(tokens) : a <= tokens[k].span.start /\ tokens[k].span.start < b}

\* C4: once the closing quote of a terminated literal has been consumed, the
\* literal, with its opening quote at byte q and b bytes of content, has
\* given exactly one token, String of the quote's kind with span (q, b + 2);
\* the token after it starts at byte q + b + 2, and there is one when lex
\* has returned and the input goes on after the literal.
C4_StringSpan ==
    \A l \in Literals(1, 0) :
        cursor >= l[2] =>
            LET q == ByteIndex(l[1])
                b == ByteLen(SubSeq(input, l[1] + 1, l[2] - 1))
            IN  /\ Cardinality(StartingIn(q, q + b + 2)) = 1
                /\ \A k \in StartingIn(q, q + b + 2) :
                    /\ tokens[k] = create_token(StringTok(KindOfQuote(input[l[1]])),
                                                q, b + 2)
                    /\ k < Len(tokens) => tokens[k + 1].span.start = q + b + 2
                    /\ (pc = "done" /\ l[2] < Len(input)) => k < Len(tokens)

C4_Witness ==
    /\ pc = "done"
    /\ \E l \in Literals(1, 0) :
        /\ SubSeq(input, l[1] + 1, l[2] - 1) = <<"pe">>
        /\ l[2] < Len(input)
    /\ Len(tokens) >= 2

\* C5: when the input ends inside a string literal, lex returns, the last
\* token is a String of the opening quote's kind that starts where the
\* literal was opened and runs to the end of the input, and no error has
\* been recorded for it.
C5_UnterminatedString ==
    (pc # "lexing" /\ IsInString(current_state)) =>
        /\ pc = "done"
        /\ tokens # <<>>
        /\ IsStringToken(Last(tokens))
        /\ Last(tokens).kind.sub =
              (IF current_state = "InString(InSingleQuote)"
               THEN "SingleQuoted" ELSE "DoubleQuoted")
        /\ Last(tokens).span.start = buffered_token_start
        /\ SpanEnd(Last(tokens)) = InputLen
        /\ \A k \in 1..Len(errors) : errors[k].span.start < buffered_token_start

\* C6: lex never aborts.
C6_NoFatalPath == pc \notin {"panicked", "unreachable"}

\* C7: the dispatch loop ends, and a loop iteration that does not advance
\* the cursor changes the state.
C7_Termination ==
    /\ <>(pc # "lexing")
    /\ [][(pc = "lexing" /\ pc' = "lexing" /\ cursor' = cursor)
              => current_state' # current_state]_vars

\* a number ended by a letter: two iterations in a row leave the cursor alone
C7_Witness ==
    /\ pc = "done"
    /\ Len(input) >= 2
    /\ cursor = Len(input)
    /\ Len(tokens) = 2
    /\ tokens[1].kind = Plain("Number")
    /\ tokens[2].kind = Plain("Identifier")

MidToken == {"InNumber", "InIdentifier", "InOperator"}

\* the end of the buffered slice when the next step finalizes it: the byte
\* index of the boundary character, or the end of the input
BufferEnd == IF HasCurrent THEN current_byte_index ELSE InputLen

\* the tokens of the slice s..(e - 1) buffered in state st
BoundaryTokens(st, s, e) ==
    CASE st = "InNumber" -> <<create_token(Plain("Number"), s, e - s)>>
      [] st = "InIdentifier" ->
            <<create_token(IF is_keyword(Slice(s, e))
                           THEN Plain("Keyword") ELSE Plain("Identifier"), s, e - s)>>
      [] st = "InOperator" ->
            IF match_operator_slice_to_operator_kind(Slice(s, e)) # "Invalid"
            THEN <<create_token(
                     OperatorTok(match_operator_slice_to_operator_kind(Slice(s, e))),
                     s, e - s)>>
            ELSE <<create_token(
                     OperatorTok(match_operator_slice_to_operator_kind(<<CharAtByte(s)>>)),
                     s, 1),
                   create_token(
                     OperatorTok(match_operator_slice_to_operator_kind(<<CharAtByte(s + 1)>>)),
                     s + 1, 1)>>

\* C8: a step that finalizes a number, an identifier or an operator appends
\* the tokens of the buffered slice, which runs from buffered_token_start to
\* the boundary character or, in the flush, to the end of the input; the
\* flush appends what a boundary character would have made of the same slice
\* and lex returns.
C8_TrailingToken ==
    [][(pc = "lexing" /\ current_state \in MidToken
          /\ (~HasCurrent \/ current_state' = "Start"))
        => /\ tokens' = tokens \o BoundaryTokens(current_state, buffered_token_start,
                                                 BufferEnd)
           /\ ~HasCurrent => (pc' = "done" /\ SpanEnd(Last(tokens')) = InputLen)]_vars

C8_Witness ==
    /\ pc = "done"
    /\ current_state \in MidToken
    /\ Len(input) >= 2
    /\ tokens # <<>>
    /\ SpanEnd(Last(tokens)) = InputLen
    /\ Last(tokens).span.length >= 2

IsInvalidOperatorError(e) == e.kind = "InvalidOperator"

\* C9: after lex has returned, every invalid operator pair at bytes s, s + 1
\* has given the first character's token (s, 1), and its second character
\* starts a new slice: followed by an operator character it gives the token
\* (s + 1, 2) when the two resolve together; otherwise it gives (s + 1, 1).
C9_SplitRestartsFromSecond ==
    pc = "done" =>
        \A n \in 1..Len(errors) :
            IsInvalidOperatorError(errors[n]) =>
                LET s  == errors[n].span.start
                    c2 == CharAtByte(s + 1)
                    c3 == CharAtByte(s + 2)
                IN  /\ \E k \in 1..Len(tokens) :
                          tokens[k].kind.tag = "Operator" /\ tokens[k].span = Span(s, 1)
                    /\ IF is_operator(c3)
                          /\ match_operator_slice_to_operator_kind(<<c2, c3>>) # "Invalid"
                       THEN \E k \in 1..Len(tokens) :
                              tokens[k] = create_token(
                                  OperatorTok(match_operator_slice_to_operator_kind(<<c2, c3>>)),
                                  s + 1, 2)
                       ELSE \E k \in 1..Len(tokens) :
                              tokens[k].kind.tag = "Operator"
                              /\ tokens[k].span = Span(s + 1, 1)

\* the next step finalizes a 2-character operator slice that is not in the table
InvalidPair ==
    /\ pc = "lexing"
    /\ current_state = "InOperator"
    /\ Len(Slice(buffered_token_start, BufferEnd)) = 2
    /\ match_operator_slice_to_operator_kind(Slice(buffered_token_start, BufferEnd))
          = "Invalid"

InvalidOperatorErrors(es) == SelectSeq(es, IsInvalidOperatorError)

\* C10: the step that finalizes an invalid pair at byte s appends exactly the
\* error InvalidOperator (s, 2) and exactly the two tokens (s, 1) and
\* (s + 1, 1), each an Operator resolved from its own character; no other
\* step records an InvalidOperator error.
C10_InvalidOperatorPair ==
    [][ /\ InvalidPair =>
            LET s == buffered_token_start
            IN  /\ errors' = Append(errors, LexerError(Span(s, 2), "InvalidOperator"))
                /\ tokens' = tokens \o
                     <<create_token(OperatorTok(
                          match_operator_slice_to_operator_kind(<<CharAtByte(s)>>)), s, 1),
                       create_token(OperatorTok(
                          match_operator_slice_to_operator_kind(<<CharAtByte(s + 1)>>)),
                          s + 1, 1)>>
                /\ Last(tokens').kind.sub # "Invalid"
                /\ tokens'[Len(tokens)+1].kind.sub # "Invalid"
        /\ ~InvalidPair =>
            InvalidOperatorErrors(errors') = InvalidOperatorErrors(errors) ]_vars

C10_Witness ==
    /\ pc = "done"
    /\ \E n \in 1..Len(errors) :
         /\ errors[n] = LexerError(Span(1, 2), "InvalidOperator")
         /\ \E k \in 1..(Len(tokens) - 1) :
              /\ tokens[k] = create_token(OperatorTok("Equal"), 1, 1)
              /\ tokens[k + 1] = create_token(OperatorTok("Add"), 2, 1)

(***************************************************************************)
(* The operator table on its own: the input is an operator slice and the   *)
(* one step resolves it into an Operator token over the whole slice.       *)
(***************************************************************************)
\* Longest operator slice, in characters.
MaxSliceLen == 3

OperatorSymbols == {"+", "-", "*", "/", "=", "!", "<", ">", "%"}

OperatorSlices == UNION {[1..k -> OperatorSymbols] : k \in 0..MaxSliceLen}

TableInit ==
    /\ input \in OperatorSlices
    /\ current_state = "InOperator"
    /\ buffered_token_start = 0
    /\ current_character_byte_index = 0
    /\ cursor = 0
    /\ tokens = <<>>
    /\ errors = <<>>
    /\ advancement = 0
    /\ pc = "resolving"

ResolveSlice ==
    /\ pc = "resolving"
    /\ pc' = "resolved"
    /\ tokens' = <<create_token(OperatorTok(match_operator_slice_to_operator_kind(input)),
                                0, Len(input))>>
    /\ UNCHANGED <<input, current_state, buffered_token_start, cursor,
                   current_character_byte_index, errors, advancement>>

TableSpec == TableInit /\ [][ResolveSlice]_vars

\* the documented spellings, with the kind names as the code spells them
OperatorTable ==
    { <<<<"+">>, "Add">>, <<<<"-">>, "Substract">>, <<<<"*">>, "Multiply">>,
      <<<<"/">>, "Divide">>, <<<<"=">>, "Equal">>, <<<<"%">>, "Modulo">>,
      <<<<"!">>, "Not">>, <<<<">">>, "GreaterThan">>, <<<<"<">>, "LessThan">>,
      <<<<"+", "=">>, "CompoundAdd">>, <<<<"-", "=">>, "CompoundSubstract">>,
      <<<<"*", "=">>, "CompoundMultiply">>, <<<<"/", "=">>, "CompoundDivide">>,
      <<<<"%", "=">>, "CompoundModulo">>, <<<<"=", "=">>, "DoubleEqual">>,
      <<<<"!", "=">>, "NotEqual">>, <<<<"+", "+">>, "Increment">>,
      <<<<"-", "-">>, "Decrement">> }

Documented(slice) == {e \in OperatorTable : e[1] = slice}

\* the slices of n characters that the table resolves
Resolving(n) ==
    {slice \in [1..n -> OperatorSymbols] :
        match_operator_slice_to_operator_kind(slice) # "Invalid"}

\* a resolved slice has the kind the table documents for its spelling, and
\* the kind Invalid when its spelling is not in the table
ResolvedAsDocumented ==
    pc = "resolved" =>
        /\ \A e \in Documented(input) : tokens[1].kind.sub = e[2]
        /\ Documented(input) = {} => tokens[1].kind.sub = "Invalid"
        /\ tokens[1].kind.sub # "Invalid" => Len(input) \in {1, 2}

\* C11 as stated: every slice resolves as documented, 9 single characters
\* resolve, and 8 two-character spellings resolve.
C11_EightPairs ==
    /\ ResolvedAsDocumented
    /\ Cardinality(Resolving(1)) = 9
    /\ Cardinality(Resolving(2)) = 8

\* C11 as amended: every slice resolves as documented, 9 single characters
\* resolve, and 9 two-character spellings resolve (+= -= *= /= %= == != ++
\* --); every other slice, the empty one and the longer ones included, is
\* Invalid.
C11_OperatorTable ==
    /\ ResolvedAsDocumented
    /\ Cardinality(Resolving(1)) = 9
    /\ Cardinality(Resolving(2)) = 9
    /\ Resolving(0) = {}
    /\ Resolving(3) = {}

C11_Witness ==
    /\ pc = "resolved"
    /\ input = <<"-", "-">>
    /\ tokens[1].kind.sub = "Decrement"

\* the indexes, from i on, of the operator characters outside the string
\* literals; o is the index of the quote that is open at i, 0 when none is
RECURSIVE OperatorIndexes(_, _)
OperatorIndexes(i, o) ==
    IF i > Len(input) THEN {}
    ELSE IF o = 0
         THEN IF input[i] \in Quotes THEN OperatorIndexes(i + 1, i)
              ELSE (IF is_operator(input[i]) THEN {i} ELSE {})
                   \cup OperatorIndexes(i + 1, 0)
         ELSE IF input[i] = input[o]
              THEN OperatorIndexes(i + 1, 0)
              ELSE OperatorIndexes(i + 1, o)

\* the maximal runs of the indexes ops, as pairs <<first, last>>
MaximalRuns(ops) ==
    {r \in ops \X ops :
        /\ r[1] <= r[2]
        /\ \A i \in r[1]..r[2] : i \in ops
        /\ (r[1] - 1) \notin ops
        /\ (r[2] + 1) \notin ops}

OperatorRuns == MaximalRuns(OperatorIndexes(1, 0))

Min(a, b) == IF a <= b THEN a ELSE b

\* the slices of two characters of a run, the last one of one character when
\* the run is odd, as pairs <<first, last>> of indexes
PairSlices(r) ==
    {<<r[1] + 2 * j, Min(r[1] + 2 * j + 1, r[2])>> : j \in 0..((r[2] - r[1]) \div 2)}

SliceKind(sl) == match_operator_slice_to_operator_kind(SubSeq(input, sl[1], sl[2]))

\* the last character of the run has been consumed and its slice finalized
RunFinalized(r) ==
    \/ cursor > r[2]
    \/ cursor = r[2] /\ (pc = "done" \/ current_state = "Start")

\* C12: a finalized maximal run of operator characters whose slices of two
\* (a last slice of one when the run is odd) all resolve has given exactly
\* one Operator token per slice, of the slice's kind and over the slice's
\* bytes, and no error.
C12_GreedyPairing ==
    \A r \in OperatorRuns :
        (RunFinalized(r) /\ \A sl \in PairSlices(r) : SliceKind(sl) # "Invalid") =>
            /\ \A sl \in PairSlices(r) :
                  \E k \in 1..Len(tokens) :
                      tokens[k] = create_token(OperatorTok(SliceKind(sl)),
                                               ByteIndex(sl[1]), sl[2] - sl[1] + 1)
            /\ Cardinality(StartingIn(ByteIndex(r[1]), ByteIndex(r[2] + 1)))
                  = Cardinality(PairSlices(r))
            /\ \A n \in 1..Len(errors) :
                  \/ errors[n].span.start < ByteIndex(r[1])
                  \/ errors[n].span.start >= ByteIndex(r[2] + 1)

C12_Witness ==
    /\ pc = "done"
    /\ errors = <<>>
    /\ \E k \in 1..(Len(tokens) - 1) :
        /\ tokens[k].kind = OperatorTok("CompoundAdd")
        /\ tokens[k].span.length = 2
        /\ tokens[k + 1].kind = OperatorTok("Add")
        /\ tokens[k + 1].span.start = SpanEnd(tokens[k])

(***************************************************************************)
(* The lexer on identifier-like text: letters that spell keywords, in both *)
(* cases, with a digit, an underscore and one character of each other kind *)
(* that ends an identifier.                                                *)
(***************************************************************************)
\* Longest identifier-like input, in characters.
MaxIdentLen == 4

IdentAlphabet == {"i", "f", "l", "e", "t", "I", "F", "1", "_", " ", "+", "'"}

IdentInputs == UNION {[1..k -> IdentAlphabet] : k \in 0..MaxIdentLen}

IdentInit == \E source \in IdentInputs : New(source)

IdentSpec == IdentInit /\ [][Next]_vars

Keywords ==
    { <<"l", "e", "t">>, <<"c", "o", "n", "s", "t">>, <<"i", "f">>,
      <<"e", "l", "s", "e">>, <<"w", "h", "i", "l", "e">>, <<"f", "o", "r">>,
      <<"f", "u", "n", "c", "t", "i", "o", "n">>, <<"m", "m", "k">> }

IsWordToken(t) == t.kind.tag \in {"Keyword", "Identifier"}

TokenText(t) == Slice(t.span.start, SpanEnd(t))

\* C13: a token finalized from InIdentifier is Keyword when its whole text
\* is one of the keywords, spelled in lower case, and Identifier otherwise;
\* its text is the whole maximal slice: it starts where the identifier
\* started and the character after it is not an identifier character.
C13_KeywordLaw ==
    \A k \in 1..Len(tokens) :
        IsWordToken(tokens[k]) =>
            /\ tokens[k].kind.tag = "Keyword" <=> TokenText(tokens[k]) \in Keywords
            /\ ~is_in_identifier(CharAtByte(SpanEnd(tokens[k])))
            /\ tokens[k].span.start > 0 =>
                  \/ ~is_in_identifier(CharAtByte(tokens[k].span.start - 1))
                  \/ \E j \in 1..Len(tokens) :
                        /\ SpanEnd(tokens[j]) = tokens[k].span.start
                        /\ ~IsWordToken(tokens[j])

\* a keyword at the end of the input, after a token that is not a word
C13_Witness ==
    /\ pc = "done"
    /\ current_state = "InIdentifier"
    /\ Len(tokens) >= 2
    /\ Last(tokens).kind = Plain("Keyword")
    /\ TokenText(Last(tokens)) = <<"l", "e", "t">>
    /\ SpanEnd(Last(tokens)) = InputLen

\* the character is of none of the kinds handle_start recognizes
Unrecognized(character) ==
    ~ \/ is_digit(character) \/ is_letter(character)
      \/ is_single_quote(character) \/ is_double_quote(character)
      \/ is_operator(character) \/ is_semicolon(character)
      \/ is_whitespace(character)

IsInvalidToken(t) == t.kind.tag = "Invalid"

IsInvalidTokenError(e) == e.kind = "InvalidToken"

\* C14: an unrecognized character met in Start appends exactly one Invalid
\* token with the span (byte offset of the character, 1) and exactly one
\* InvalidToken error with the same span, is consumed, and leaves the state
\* Start; at all times the Invalid tokens and the InvalidToken errors are
\* equal in number and correspond one to one by their spans.
C14_InvalidCharacter ==
    /\ [][(pc = "lexing" /\ HasCurrent /\ current_state = "Start"
             /\ Unrecognized(current_character))
          => /\ tokens' = Append(tokens,
                                 create_token(Plain("Invalid"), current_byte_index, 1))
             /\ errors' = Append(errors,
                                 LexerError(Span(current_byte_index, 1), "InvalidToken"))
             /\ current_state' = "Start"
             /\ cursor' = cursor + 1]_vars
    /\ [](/\ Len(SelectSeq(tokens, IsInvalidToken))
               = Len(SelectSeq(errors, IsInvalidTokenError))
          /\ \A k \in 1..Len(tokens) :
                IsInvalidToken(tokens[k]) =>
                    Cardinality({n \in 1..Len(errors) :
                                    errors[n] = LexerError(tokens[k].span, "InvalidToken")})
                      = 1
          /\ \A n \in 1..Len(errors) :
                IsInvalidTokenError(errors[n]) =>
                    \E k \in 1..Len(tokens) :
                        IsInvalidToken(tokens[k]) /\ tokens[k].span = errors[n].span)

\* two unrecognized characters, the second of two bytes
C14_Witness ==
    /\ pc = "done"
    /\ Len(SelectSeq(tokens, IsInvalidToken)) >= 2
    /\ \E k \in 1..Len(tokens) :
        /\ IsInvalidToken(tokens[k])
        /\ CharAtByte(tokens[k].span.start) = "pe"
        /\ tokens[k].span.length = 1

\* C15: the span starts of the recorded errors ascend strictly, whatever
\* their kinds.
C15_ErrorOrder ==
    \A n \in 1..(Len(errors) - 1) :
        errors[n + 1].span.start > errors[n].span.start

C15_Witness ==
    /\ pc = "done"
    /\ Len(errors) >= 2
    /\ \E n \in 1..(Len(errors) - 1) : errors[n].kind # errors[n + 1].kind

\* C17: entering InNumber, InIdentifier or InOperator from Start keeps the
\* cursor and the next iteration is given the same character at the same
\* byte offset; every step moves the cursor by 0 or 1; and when the loop
\* ends the cursor is the number of characters of the input.
C17_NonConsumingEntry ==
    [][ /\ cursor' \in {cursor, cursor + 1}
        /\ (pc = "lexing" /\ current_state = "Start" /\ current_state' \in MidToken)
              => /\ cursor' = cursor
                 /\ HasCurrent'
                 /\ current_character' = current_character
                 /\ current_byte_index' = current_byte_index
        /\ (pc = "lexing" /\ pc' # "lexing")
              => (cursor = Len(input) /\ advancement = Len(input)) ]_vars

\* a number, then an identifier, then an operator, each entered from Start
C17_Witness ==
    /\ pc = "done"
    /\ cursor = Len(input)
    /\ Len(tokens) = 3
    /\ tokens[1].kind = Plain("Number")
    /\ tokens[2].kind = Plain("Identifier")
    /\ tokens[3].kind.tag = "Operator"

(***************************************************************************)
(* The lexer with an ErrorHandler that an earlier Lexer has already        *)
(* written to: an ErrorHandler outlives the Lexer that borrows it.         *)
(***************************************************************************)
\* Longest input given to a lexer with a used ErrorHandler, in characters.
MaxReuseLen == 3

\* error lists left by an earlier lex: of "", of "@" and of "=+ @"
PriorErrors ==
    { <<>>,
      <<LexerError(Span(0, 1), "InvalidToken")>>,
      <<LexerError(Span(0, 2), "InvalidOperator"),
        LexerError(Span(3, 1), "InvalidToken")>> }

\* Lexer::new with the ErrorHandler `handler`
NewWithHandler(source, handler) ==
    /\ input = source
    /\ current_state = "Start"
    /\ buffered_token_start = 0
    /\ current_character_byte_index = 0
    /\ cursor = 0
    /\ tokens = <<>>
    /\ errors = handler
    /\ advancement = 0
    /\ pc = "lexing"

ReuseInit ==
    \E source \in Inputs(MaxReuseLen), handler \in PriorErrors :
        NewWithHandler(source, handler)

ReuseSpec == ReuseInit /\ [][Next]_vars

IsPrefix(a, b) == Len(a) <= Len(b) /\ SubSeq(b, 1, Len(a)) = a

\* C18: every step leaves the token list and the error list, the errors the
\* handler held before lex included, as prefixes of the new lists; it appends
\* at most 2 tokens and at most 1 error, and 2 tokens only when it splits an
\* invalid operator pair, with its InvalidOperator error.
C18_AppendOnly ==
    [][ /\ IsPrefix(tokens, tokens')
        /\ IsPrefix(errors, errors')
        /\ Len(tokens') - Len(tokens) \in 0..2
        /\ Len(errors') - Len(errors) \in 0..1
        /\ Len(tokens') = Len(tokens) + 2 =>
              /\ InvalidPair
              /\ Len(errors') = Len(errors) + 1
              /\ Last(errors').kind = "InvalidOperator" ]_vars

\* a used handler, an invalid character, then a split operator pair
C18_Witness ==
    /\ pc = "done"
    /\ Len(errors) = 4
    /\ errors[1] = LexerError(Span(0, 2), "InvalidOperator")
    /\ errors[3] = LexerError(Span(0, 1), "InvalidToken")
    /\ errors[4] = LexerError(Span(1, 2), "InvalidOperator")
    /\ Len(tokens) = 3

\* C19: no step executes unreachable!(): consume_buffered_token is never
\* entered in Start and handle_in_string never outside InString.
C19_NoUnreachableArm == pc # "unreachable"

\* a string closed by its handler, and an operator finalized by the flush
C19_Witness ==
    /\ pc = "done"
    /\ current_state = "InOperator"
    /\ Len(tokens) >= 2
    /\ \E k \in 1..Len(tokens) : IsStringToken(tokens[k])

\* the slice that the next iteration in InOperator finds buffered
BufferedOperator == Slice(buffered_token_start, BufferEnd)

\* C20: in InOperator the buffered slice is a valid slice of at most 2
\* characters, all operator symbols; a slice of 2 is finalized by the next
\* step, which consumes nothing, whatever the next character is; and every
\* Operator token is 1 or 2 bytes long.
C20_OperatorSliceAtMostTwo ==
    /\ []((pc = "lexing" /\ current_state = "InOperator") =>
            /\ SliceOk(buffered_token_start, BufferEnd)
            /\ Len(BufferedOperator) <= 2
            /\ BufferEnd - buffered_token_start = Len(BufferedOperator)
            /\ \A n \in 1..Len(BufferedOperator) : is_operator(BufferedOperator[n]))
    /\ [](\A k \in 1..Len(tokens) :
            tokens[k].kind.tag = "Operator" => tokens[k].span.length \in {1, 2})
    /\ [][(pc = "lexing" /\ current_state = "InOperator" /\ Len(BufferedOperator) = 2)
          => /\ Len(tokens') > Len(tokens)
             /\ cursor' = cursor
             /\ HasCurrent => current_state' = "Start"
             /\ ~HasCurrent => pc' = "done"]_vars

\* a slice of 2 finalized before a third operator character
C20_Witness ==
    /\ pc = "lexing"
    /\ current_state = "Start"
    /\ HasCurrent
    /\ is_operator(current_character)
    /\ tokens # <<>>
    /\ Last(tokens).kind.tag = "Operator"
    /\ Last(tokens).span.length = 2
    /\ SpanEnd(Last(tokens)) = current_byte_index

IsNumberToken(t) == t.kind = Plain("Number")

\* the next iteration in InNumber is given a character that is not a digit
NumberBoundary ==
    /\ pc = "lexing"
    /\ current_state = "InNumber"
    /\ HasCurrent
    /\ ~is_digit(current_character)

\* C21: every Number token's slice is a valid, non-empty slice of ASCII
\* digits only, with no digit right before it and no digit right after it;
\* the token after it starts where it ends, and there is one when lex has
\* returned and the input goes on.  The step that meets the boundary
\* character appends the Number token of the buffered slice, leaves the
\* state Start and keeps the cursor, so that the next iteration gives the
\* same character to handle_start; a digit is consumed and appends nothing.
C21_NumberRuns ==
    /\ [](\A k \in 1..Len(tokens) :
            IsNumberToken(tokens[k]) =>
                LET s    == tokens[k].span.start
                    e    == SpanEnd(tokens[k])
                    text == TokenText(tokens[k])
                IN  /\ tokens[k].span.length >= 1
                    /\ SliceOk(s, e)
                    /\ Len(text) = tokens[k].span.length
                    /\ \A n \in 1..Len(text) : text[n] \in AsciiDigits
                    /\ CharAtByte(e) \notin AsciiDigits
                    /\ s > 0 => CharAtByte(s - 1) \notin AsciiDigits
                    /\ k < Len(tokens) => tokens[k + 1].span.start = e
                    /\ (pc = "done" /\ e < InputLen) => k < Len(tokens))
    /\ [][ /\ NumberBoundary =>
                /\ tokens' = Append(tokens,
                                    create_token(Plain("Number"), buffered_token_start,
                                                 current_byte_index - buffered_token_start))
                /\ errors' = errors
                /\ current_state' = "Start"
                /\ pc' = "lexing"
                /\ cursor' = cursor
                /\ HasCurrent'
                /\ current_character' = current_character
                /\ current_byte_index' = current_byte_index
           /\ (pc = "lexing" /\ current_state = "InNumber" /\ HasCurrent
                  /\ is_digit(current_character)) =>
                /\ tokens' = tokens
                /\ current_state' = "InNumber"
                /\ cursor' = cursor + 1 ]_vars

\* a number of two digits, then a word of two letters
C21_Witness ==
    /\ pc = "done"
    /\ Len(tokens) = 2
    /\ tokens[1] = create_token(Plain("Number"), 0, 2)
    /\ IsWordToken(tokens[2])
    /\ tokens[2].span = Span(2, 2)

\* the characters that continue an identifier
IdentifierContinue == AsciiLetters \cup AsciiDigits \cup {"_"}

\* C22: the text of every Identifier or Keyword token is a valid slice that
\* starts with an ASCII letter and goes on with ASCII letters, ASCII digits
\* and underscores only; the character after it does not continue an
\* identifier and the character before it is not a letter.  A digit before
\* it is the end of a Number token that ends where the word starts, and an
\* underscore before it is an Invalid token of 1 byte with one InvalidToken
\* error.  An underscore met in Start is consumed as an Invalid token and
\* leaves the state Start.
C22_IdentifierShape ==
    /\ [](\A k \in 1..Len(tokens) :
            IsWordToken(tokens[k]) =>
                LET s    == tokens[k].span.start
                    e    == SpanEnd(tokens[k])
                    text == TokenText(tokens[k])
                IN  /\ SliceOk(s, e)
                    /\ Len(text) >= 1
                    /\ Len(text) = tokens[k].span.length
                    /\ text[1] \in AsciiLetters
                    /\ \A n \in 1..Len(text) : text[n] \in IdentifierContinue
                    /\ CharAtByte(e) \notin IdentifierContinue
                    /\ s > 0 =>
                        /\ CharAtByte(s - 1) \notin AsciiLetters
                        /\ CharAtByte(s - 1) \in AsciiDigits =>
                              /\ k > 1
                              /\ IsNumberToken(tokens[k - 1])
                              /\ SpanEnd(tokens[k - 1]) = s
                        /\ CharAtByte(s - 1) = "_" =>
                              /\ k > 1
                              /\ tokens[k - 1] = create_token(Plain("Invalid"), s - 1, 1)
                              /\ Cardinality({n \in 1..Len(errors) :
                                    errors[n] = LexerError(Span(s - 1, 1), "InvalidToken")})
                                   = 1)
    /\ [][(pc = "lexing" /\ current_state = "Start" /\ HasCurrent
             /\ current_character = "_")
          => /\ tokens' = Append(tokens,
                                 create_token(Plain("Invalid"), current_byte_index, 1))
             /\ errors' = Append(errors,
                                 LexerError(Span(current_byte_index, 1), "InvalidToken"))
             /\ current_state' = "Start"
             /\ cursor' = cursor + 1]_vars

\* a leading underscore, then an identifier that holds an underscore and a digit
C22_Witness ==
    /\ pc = "done"
    /\ input = <<"_", "i", "_", "1">>
    /\ tokens = <<create_token(Plain("Invalid"), 0, 1),
                  create_token(Plain("Identifier"), 1, 3)>>
    /\ errors = <<LexerError(Span(0, 1), "InvalidToken")>>

(***************************************************************************)
(* The lexer on string literals and what they may hold: both quotes, a     *)
(* backslash, an operator, a semicolon, a space, a letter, a digit, an     *)
(* unclassified character and a letter of two bytes.                       *)
(***************************************************************************)
\* Longest input with string literals, in characters.
MaxStringLen == 4

StringAlphabet == {"'", "\"", "\\", "+", ";", " ", "@", "pe", "i", "1"}

StringInputs == UNION {[1..k -> StringAlphabet] : k \in 0..MaxStringLen}

StringInit == \E source \in StringInputs : New(source)

StringSpec == StringInit /\ [][Next]_vars

\* the quote character that closes a literal opened in state st
ClosingQuote(st) == IF st = "InString(InSingleQuote)" THEN "'" ELSE "\""

\* the errors whose spans start inside the bytes a..(b - 1)
ErrorsStartingIn(a, b) ==
    {n \in 1..Len(errors) : a <= errors[n].span.start /\ errors[n].span.start < b}

\* C23: a quote met in Start opens a literal of its own kind and appends
\* nothing; inside a literal a character that is not the opening quote
\* character is consumed and appends no token and no error, whatever it is;
\* the first occurrence of the opening quote character closes the literal
\* with one String token of the opening quote's kind and no error.  A
\* literal closed at the first later occurrence of its quote character, found
\* by a scan that knows no escape, has given one token, a String of the kind
\* of its opening quote, no token inside it and no error.
C23_InertContent ==
    /\ [][ /\ (pc = "lexing" /\ current_state = "Start" /\ HasCurrent
                 /\ current_character \in Quotes) =>
                /\ current_state' = (IF current_character = "'"
                                     THEN "InString(InSingleQuote)"
                                     ELSE "InString(InDoubleQuote)")
                /\ tokens' = tokens /\ errors' = errors
                /\ cursor' = cursor + 1
           /\ (pc = "lexing" /\ IsInString(current_state) /\ HasCurrent
                 /\ current_character # ClosingQuote(current_state)) =>
                /\ tokens' = tokens /\ errors' = errors
                /\ current_state' = current_state
                /\ cursor' = cursor + 1
           /\ (pc = "lexing" /\ IsInString(current_state) /\ HasCurrent
                 /\ current_character = ClosingQuote(current_state)) =>
                /\ Len(tokens') = Len(tokens) + 1
                /\ IsStringToken(Last(tokens'))
                /\ Last(tokens').kind.sub = "SingleQuoted"
                      <=> current_state = "InString(InSingleQuote)"
                /\ Last(tokens').kind.sub = "DoubleQuoted"
                      <=> current_state = "InString(InDoubleQuote)"
                /\ SpanEnd(Last(tokens')) = current_byte_index + 1
                /\ errors' = errors
                /\ current_state' = "Start"
                /\ cursor' = cursor + 1 ]_vars
    /\ [](\A l \in Literals(1, 0) :
            LET q == ByteIndex(l[1])
                e == ByteIndex(l[2]) + 1
            IN  /\ ErrorsStartingIn(q, e) = {}
                /\ StartingIn(q + 1, e) = {}
                /\ cursor >= l[2] =>
                      \E k \in 1..Len(tokens) :
                          /\ StartingIn(q, e) = {k}
                          /\ IsStringToken(tokens[k])
                          /\ tokens[k].kind.sub = "SingleQuoted" <=> input[l[1]] = "'"
                          /\ tokens[k].kind.sub = "DoubleQuoted" <=> input[l[1]] = "\""
                          /\ SpanEnd(tokens[k]) = e)
    /\ []((pc = "lexing" /\ IsInString(current_state)) =>
            /\ CharAtByte(buffered_token_start) = ClosingQuote(current_state)
            /\ \A k \in 1..Len(tokens) : tokens[k].span.start < buffered_token_start
            /\ \A n \in 1..Len(errors) : errors[n].span.start < buffered_token_start)

\* a backslash before the closing quote does not escape it
C23_Witness ==
    /\ pc = "done"
    /\ input = <<"\"", "\\", "\"", ";">>
    /\ tokens = <<create_token(StringTok("DoubleQuoted"), 0, 3),
                  create_token(Plain("Semicolon"), 3, 1)>>
    /\ errors = <<>>

\* the indexes, from i on, of the characters outside the string literals,
\* the quotes left out; o is the index of the quote that is open at i
RECURSIVE OutsideIndexes(_, _)
OutsideIndexes(i, o) ==
    IF i > Len(input) THEN {}
    ELSE IF o = 0
         THEN IF input[i] \in Quotes THEN OutsideIndexes(i + 1, i)
              ELSE {i} \cup OutsideIndexes(i + 1, 0)
         ELSE IF input[i] = input[o]
              THEN OutsideIndexes(i + 1, 0)
              ELSE OutsideIndexes(i + 1, o)

\* the tokens of kind tag
TokensOfKind(tag) == {k \in 1..Len(tokens) : tokens[k].kind = Plain(tag)}

\* C24: a whitespace character met in Start appends the one token Whitespace
\* (byte offset of the character, 1), is consumed, leaves the state Start
\* and records no error; a semicolon does the same with Semicolon.  The
\* Whitespace tokens are as many as the consumed whitespace characters
\* outside the string literals, one at the byte offset of each, all of
\* length 1, and so are the Semicolon tokens for the semicolons.
C24_NeverMerged ==
    /\ [][ /\ (pc = "lexing" /\ current_state = "Start" /\ HasCurrent
                 /\ current_character \in UnicodeWhitespace) =>
                /\ tokens' = Append(tokens,
                       create_token(Plain("Whitespace"), current_byte_index, 1))
                /\ errors' = errors
                /\ current_state' = "Start"
                /\ cursor' = cursor + 1
           /\ (pc = "lexing" /\ current_state = "Start" /\ HasCurrent
                 /\ current_character = ";") =>
                /\ tokens' = Append(tokens,
                       create_token(Plain("Semicolon"), current_byte_index, 1))
                /\ errors' = errors
                /\ current_state' = "Start"
                /\ cursor' = cursor + 1 ]_vars
    /\ [](LET outside == {i \in OutsideIndexes(1, 0) : i <= cursor}
              spaces  == {i \in outside : input[i] \in UnicodeWhitespace}
              semis   == {i \in outside : input[i] = ";"}
          IN  /\ Cardinality(TokensOfKind("Whitespace")) = Cardinality(spaces)
              /\ {tokens[k].span : k \in TokensOfKind("Whitespace")}
                   = {Span(ByteIndex(i), 1) : i \in spaces}
              /\ Cardinality(TokensOfKind("Semicolon")) = Cardinality(semis)
              /\ {tokens[k].span : k \in TokensOfKind("Semicolon")}
                   = {Span(ByteIndex(i), 1) : i \in semis})

\* a run of three whitespace characters, the second of two bytes, then a semicolon
C24_Witness ==
    /\ pc = "done"
    /\ input = <<" ", "nbsp", " ", ";">>
    /\ tokens = <<create_token(Plain("Whitespace"), 0, 1),
                  create_token(Plain("Whitespace"), 1, 1),
                  create_token(Plain("Whitespace"), 3, 1),
                  create_token(Plain("Semicolon"), 4, 1)>>
    /\ errors = <<>>

(***************************************************************************)
(* The lexer on operator text: the nine operator characters, an ampersand, *)
(* and a quote, a digit and a letter that end an operator slice.           *)
(***************************************************************************)
\* Longest input of operator text, in characters.
MaxOperatorLen == 3

OperatorAlphabet == {"+", "-", "*", "/", "=", "!", "<", ">", "%", "&", "'", "1", "i"}

OperatorInputs == UNION {[1..k -> OperatorAlphabet] : k \in 0..MaxOperatorLen}

OperatorInit == \E source \in OperatorInputs : New(source)

OperatorSpec == OperatorInit /\ [][Next]_vars

IsOperatorToken(t) == t.kind.tag = "Operator"

\* C25: no token has the kind Operator(Invalid): every Operator token is a
\* valid slice of 1 or 2 operator characters and its kind is the kind the
\* table resolves its own text to; every character of a slice buffered in
\* InOperator resolves on its own, and so does the operator character that
\* is about to join the slice and every character that is_operator accepts.
C25_NoInvalidOperator ==
    /\ \A k \in 1..Len(tokens) :
          IsOperatorToken(tokens[k]) =>
              /\ tokens[k].kind.sub # "Invalid"
              /\ SliceOk(tokens[k].span.start, SpanEnd(tokens[k]))
              /\ tokens[k].kind.sub
                    = match_operator_slice_to_operator_kind(TokenText(tokens[k]))
    /\ (pc = "lexing" /\ current_state = "InOperator") =>
          /\ \A n \in 1..Len(BufferedOperator) :
                match_operator_slice_to_operator_kind(<<BufferedOperator[n]>>) # "Invalid"
          /\ (HasCurrent /\ is_operator(current_character)) =>
                match_operator_slice_to_operator_kind(<<current_character>>) # "Invalid"
    /\ \A character \in OperatorAlphabet :
          is_operator(character) =>
              match_operator_slice_to_operator_kind(<<character>>) # "Invalid"

\* a pair that does not resolve, split into its two characters, then a third
C25_Witness ==
    /\ pc = "done"
    /\ input = <<"<", ">", "%">>
    /\ tokens = <<create_token(OperatorTok("LessThan"), 0, 1),
                  create_token(OperatorTok("GreaterThan"), 1, 1),
                  create_token(OperatorTok("Modulo"), 2, 1)>>
    /\ errors = <<LexerError(Span(0, 2), "InvalidOperator")>>

\* slicing the input by the span sp is valid
Sliceable(sp) ==
    /\ sp.length >= 1
    /\ sp.start + sp.length <= InputLen
    /\ is_char_boundary(sp.start)
    /\ is_char_boundary(sp.start + sp.length)

\* C26: every token span and every error span has a length of at least 1,
\* ends within the input, and starts and ends on a character boundary of
\* the input.
C26_SpansSliceable ==
    /\ \A k \in 1..Len(tokens) : Sliceable(tokens[k].span)
    /\ \A n \in 1..Len(errors) : Sliceable(errors[n].span)

\* every string literal that is opened is closed, and every character
\* outside the string literals is a single byte
Tileable ==
    /\ OpenAtEnd(1, 0) = 0
    /\ \A i \in OutsideIndexes(1, 0) : len_utf8(input[i]) = 1

\* the byte up to which the tokens made so far reach
TokensEnd == IF tokens = <<>> THEN 0 ELSE SpanEnd(Last(tokens))

\* C27: on an input whose string literals are all closed and whose
\* characters outside them are single bytes, lex returns and the tokens
\* tile the input, String tokens with their two quotes: the first token
\* starts at 0, each next token starts where the one before it ends, and the
\* last one ends at the byte length of the input; while lex runs the tokens
\* made so far tile the input up to the start of the slice being buffered.
\* The empty input gives no token and no error.
C27_ExactTiling ==
    [](Tileable =>
        /\ pc \in {"lexing", "done"}
        /\ tokens # <<>> => tokens[1].span.start = 0
        /\ \A k \in 1..(Len(tokens) - 1) :
              tokens[k + 1].span.start = SpanEnd(tokens[k])
        /\ \A k \in 1..Len(tokens) : tokens[k].span.length >= 1
        /\ pc = "lexing" =>
              TokensEnd = (IF current_state = "Start"
                           THEN BufferEnd ELSE buffered_token_start)
        /\ pc = "done" => TokensEnd = InputLen
        /\ (pc = "done" /\ input = <<>>) => (tokens = <<>> /\ errors = <<>>))

\* a number, then a closed literal that holds a letter of two bytes
C27_Witness ==
    /\ pc = "done"
    /\ Tileable
    /\ input = <<"1", "'", "pe", "'">>
    /\ tokens = <<create_token(Plain("Number"), 0, 1),
                  create_token(StringTok("SingleQuoted"), 1, 4)>>
    /\ SpanEnd(Last(tokens)) = InputLen

====
